---- MODULE Spec2Model ----
(***************************************************************************)
(* fortest: dependency resolution (ModuleDependencyResolver), direct and   *)
(* delegated builds (ProjectBuilder) and the test run of FortranTestRunner *)
(* (run_tests and its handlers), with the outcome classification of every  *)
(* spawned test process.                                                   *)
(***************************************************************************)
EXTENDS Integers, Sequences, FiniteSets, TLC

VARIABLES
    uses,           \* file -> module names of its `use` lines, as written, in order
    assertion_at,   \* where module_fortest_assertions.f90 is found
    modules,        \* list returned by the last find_module_files call
    pc,             \* position of main()/run_tests
    nfiles,         \* len(test_files) of the run
    idx,            \* 1-based index of the test file the for loop is at
    cur,            \* the test file being handled and how it is being built
    todo,           \* test subroutines of the file still to be run, in run order
    results,        \* TestResults of the file being handled (all_results)
    origin,         \* for each of them, the subroutine it was produced for
    last_exec,      \* the test process spawned by the last step, as observed
    attempted,      \* subroutines of the file a compiler was started for
    linked,         \* subroutines of the file whose own executable was linked
    ran,            \* subroutines of the file whose body started executing
    aborted,        \* subroutines of the file whose process exited non-zero
    total_tests, passed_tests, failed_tests,   \* run counters
    tmpdir,         \* the scratch output directory exists
    outcome,        \* how run_tests ended
    exit_status,    \* value returned by main()
    text,           \* lines of the source file handed to the scanner
    scan,           \* what the scanner and the generator made of it
    tree,           \* marker files of each directory, test file's first, root last
    detected        \* what build-system detection returned

vars == <<uses, assertion_at, modules, pc, nfiles, idx, cur, todo, results,
          origin, last_exec, attempted, linked, ran, aborted, total_tests,
          passed_tests, failed_tests, tmpdir, outcome, exit_status,
          text, scan, tree, detected>>

resolver_vars == <<uses, assertion_at, modules>>

scan_vars == <<text, scan>>

detect_vars == <<tree, detected>>

run_vars == <<pc, nfiles, idx, cur, todo, results, origin, last_exec, attempted,
              linked, ran, aborted, total_tests, passed_tests, failed_tests,
              tmpdir, outcome, exit_status>>

----------------------------------------------------------------------------
(* Bounds of the model *)

\* use lines in the test file
MaxUses == 2
\* use lines in a module file
MaxModUses == 1
\* test files given to one run
MaxFiles == 2
\* lines the process of one generated driver or standalone test prints
MaxLines == 1
\* lines the project's own test executable prints
MaxProjectLines == 2

(* Program constants *)

\* subprocess.run(..., timeout=30)
Timeout == 30

None == "None"

----------------------------------------------------------------------------
(* Sequence helpers *)

SeqsUpTo(S, n) == UNION {[1..k -> S] : k \in 0..n}

Range(s) == {s[i] : i \in 1..Len(s)}

Count(s, x) == Cardinality({i \in 1..Len(s) : s[i] = x})

IndexOf(s, x) == IF x \in Range(s)
                 THEN CHOOSE i \in 1..Len(s) : s[i] = x /\ \A j \in 1..(i-1) : s[j] # x
                 ELSE 0

----------------------------------------------------------------------------
(* ModuleDependencyResolver *)

TestFile == "test_sample.f90"

\* .f90 files of the project in the order the search directories yield them
ModuleFiles == <<"a.f90", "b.f90", "c.f90">>

ModuleNames == {"a", "b", "c"}

TestModule == "test_sample"

ASSERTION_MODULE == "fortest_assertions"

INTRINSIC_MODULES == {"iso_fortran_env", "iso_c_binding", "ieee_arithmetic",
                      "ieee_exceptions", "ieee_features"}

ProjectAssertions == "fortran/src/module_fortest_assertions.f90"

BundledAssertions == "fortest/module_fortest_assertions.f90"

AllFiles == Range(ModuleFiles) \cup {TestFile}

\* names a test file of the model may use
TestUseNames == ModuleNames \cup {TestModule, ASSERTION_MODULE, "iso_fortran_env"}

\* the first `module <name>` of a file
extract_module_name(f) ==
    CASE f = "a.f90" -> "a"
      [] f = "b.f90" -> "b"
      [] f = "c.f90" -> "c"
      [] f = TestFile -> TestModule
      [] f \in {ProjectAssertions, BundledAssertions} -> ASSERTION_MODULE
      [] OTHER -> None

RECURSIVE unique_in_order(_, _)
unique_in_order(matches, seen) ==
    IF matches = <<>> THEN <<>>
    ELSE IF Head(matches) \in seen
         THEN unique_in_order(Tail(matches), seen)
         ELSE <<Head(matches)>> \o
              unique_in_order(Tail(matches), seen \cup {Head(matches)})

\* the used names, each once, in order of first occurrence
extract_use_statements(f) == unique_in_order(uses[f], {})

\* the files the search directories yield, the project's copy of the
\* assertion module and the test file among them
search_files ==
    ModuleFiles \o
    (IF assertion_at = "project" THEN <<ProjectAssertions>> ELSE <<>>) \o
    <<TestFile>>

find_module_file_by_name(module_name) ==
    LET hits == {i \in 1..Len(search_files) :
                    extract_module_name(search_files[i]) = module_name}
    IN IF hits = {} THEN None
       ELSE search_files[CHOOSE i \in hits : \A j \in hits : i <= j]

find_assertion_module ==
    CASE assertion_at = "project" -> ProjectAssertions
      [] assertion_at = "bundled" -> BundledAssertions
      [] OTHER -> None

\* _find_user_modules without the skip of fortest_assertions
RECURSIVE find_user_modules_with_assertions(_, _, _)
find_user_modules_with_assertions(used_modules, test_file, found) ==
    IF used_modules = <<>> THEN found
    ELSE LET module_name == Head(used_modules)
             rest == Tail(used_modules)
             module_file == find_module_file_by_name(module_name)
         IN IF module_name \in INTRINSIC_MODULES \/ module_file = None
            THEN find_user_modules_with_assertions(rest, test_file, found)
            ELSE IF module_file = test_file \/ module_file \in Range(found)
            THEN find_user_modules_with_assertions(rest, test_file, found)
            ELSE find_user_modules_with_assertions(rest, test_file,
                                                   Append(found, module_file))

RECURSIVE find_user_modules(_, _, _)
find_user_modules(used_modules, test_file, found) ==
    IF used_modules = <<>> THEN found
    ELSE LET module_name == Head(used_modules)
             rest == Tail(used_modules)
             module_file == find_module_file_by_name(module_name)
         IN IF module_name \in INTRINSIC_MODULES \/ module_name = ASSERTION_MODULE
            THEN find_user_modules(rest, test_file, found)
            ELSE IF module_file = None
            THEN find_user_modules(rest, test_file, found)
            ELSE IF module_file = test_file \/ module_file \in Range(found)
            THEN find_user_modules(rest, test_file, found)
            ELSE find_user_modules(rest, test_file, Append(found, module_file))

find_module_files(test_file, include_assertions) ==
    LET used_modules == extract_use_statements(test_file)
        assertion_module == find_assertion_module
        first == IF include_assertions /\ ASSERTION_MODULE \in Range(used_modules)
                    /\ assertion_module # None
                 THEN <<assertion_module>> ELSE <<>>
    IN first \o find_user_modules(used_modules, test_file, <<>>)

----------------------------------------------------------------------------
(* Test files, test subroutines and what a test process does *)

\* the test subroutines a module test file of the model may declare,
\* in extraction order
SubLists == {<<>>,
             <<"test_a">>,
             <<"test_a", "test_b">>,
             <<"test_error_stop_div", "test_a">>,
             <<"test_error_stop_div">>}

ErrorStopFile == "test_error_stop_sample.f90"

\* "error_stop" in name
is_error_stop(name) == name \in {"test_error_stop_div", ErrorStopFile}

Builds == {"none", "fpm", "cmake", "make"}

\* a compiler or build tool invocation: exit 0, exit non-zero
\* (CalledProcessError), or the tool could not be started (OSError)
CompilerOutcomes == {"ok", "failed", "oserror"}

PASS == "[PASS]"

FAIL == "[FAIL]"

\* a line the compiler or build tool writes to stderr
Diagnostic == "Error: diagnostic"

\* the lines of a test process that matter to the runner
Lines == {PASS, FAIL, "ERROR STOP"}

ExitCodes == {0, 1, 2}

\* seconds until the process exits by itself
Durations == {1, Timeout + 1}

\* what a test process does; of a process that outlives the limit nothing
\* else is told apart
BehavioursUpTo(n) ==
    {b \in [lines : SeqsUpTo(Lines, n), code : ExitCodes, dur : Durations] :
        b.dur > Timeout => (b.lines = <<>> /\ b.code = 0)}

Behaviours == BehavioursUpTo(MaxLines)

ProjectBehaviours == BehavioursUpTo(MaxProjectLines)

CodeStr(rc) == CASE rc = 0 -> "0" [] rc = 1 -> "1" [] rc = 2 -> "2" [] OTHER -> "-1"

TimedOutText == "Test timed out"

RECURSIVE SelectNormal(_)
SelectNormal(subs) ==
    IF subs = <<>> THEN <<>>
    ELSE IF is_error_stop(Head(subs)) THEN SelectNormal(Tail(subs))
         ELSE <<Head(subs)>> \o SelectNormal(Tail(subs))

RECURSIVE SelectErrorStop(_)
SelectErrorStop(subs) ==
    IF subs = <<>> THEN <<>>
    ELSE IF is_error_stop(Head(subs))
         THEN <<Head(subs)>> \o SelectErrorStop(Tail(subs))
         ELSE SelectErrorStop(Tail(subs))

\* (normal_tests, error_stop_tests)
separate_error_stop_tests(test_subroutines) ==
    <<SelectNormal(test_subroutines), SelectErrorStop(test_subroutines)>>

TestResult(name, passed, message) ==
    [name |-> name, passed |-> passed, message |-> message]

----------------------------------------------------------------------------
(* Running a test executable and classifying what it did *)

\* (success, output, returncode) of subprocess.run(..., timeout=30)
run_test_executable(b) ==
    IF b.dur > Timeout
    THEN [success |-> FALSE, output |-> <<TimedOutText>>, returncode |-> -1]
    ELSE [success |-> TRUE, output |-> b.lines, returncode |-> b.code]

\* the process as the runner observed it
Observed(sub, kind, b) ==
    [sub |-> sub, kind |-> kind, limited |-> TRUE,
     elapsed |-> IF b.dur > Timeout THEN Timeout ELSE b.dur,
     timed_out |-> b.dur > Timeout,
     returncode |-> run_test_executable(b).returncode,
     output |-> run_test_executable(b).output]

NoExec == [sub |-> None, kind |-> "none", limited |-> TRUE, elapsed |-> 0,
           timed_out |-> FALSE, returncode |-> 0, output |-> <<>>]

RECURSIVE parse_test_output(_)
parse_test_output(output) ==
    IF output = <<>> THEN <<>>
    ELSE LET clean == Head(output)
             rest == parse_test_output(Tail(output))
         IN IF clean = PASS THEN <<TestResult("", TRUE, <<>>)>> \o rest
            ELSE IF clean = FAIL THEN <<TestResult("", FALSE, <<>>)>> \o rest
            ELSE rest

\* no markers taken as a pass whatever the exit code
handle_no_test_results_silent_pass(test_subroutine, returncode) ==
    TestResult(test_subroutine, TRUE, <<>>)

handle_no_test_results(test_subroutine, returncode) ==
    IF returncode # 0
    THEN TestResult(test_subroutine, FALSE,
                    <<"Error stop or abnormal termination (exit code ",
                      CodeStr(returncode), ")">>)
    ELSE TestResult(test_subroutine, TRUE, <<>>)

execute_and_parse_normal_test(test_subroutine, b) ==
    LET r == run_test_executable(b)
        parsed == parse_test_output(r.output)
    IN IF ~r.success
       THEN TestResult(test_subroutine, FALSE,
                       <<"Test execution failed: ">> \o r.output)
       ELSE IF parsed = <<>>
            THEN handle_no_test_results(test_subroutine, r.returncode)
            ELSE parsed[1]

execute_and_check_error_stop(test_subroutine, b) ==
    LET r == run_test_executable(b)
    IN IF r.returncode # 0
       THEN TestResult(test_subroutine, TRUE,
                       <<"Correctly triggered error stop (exit code ",
                         CodeStr(r.returncode), ")">>)
       ELSE TestResult(test_subroutine, FALSE,
                       <<"Expected error stop but test completed normally">>)

\* the verdict at the end of _run_single_normal_test_with_fpm
normal_test_with_fpm_verdict(test_subroutine, b) ==
    LET r == run_test_executable(b)
        has_fail == FAIL \in Range(r.output)
    IN IF r.success /\ r.returncode = 0 /\ ~has_fail
       THEN TestResult(test_subroutine, TRUE, <<>>)
       ELSE IF ~r.success \/ r.returncode # 0
            THEN TestResult(test_subroutine, FALSE,
                            <<"Error stop (exit code ", CodeStr(r.returncode), ")">>)
            ELSE TestResult(test_subroutine, FALSE, <<"Assertion failed">>)

\* the verdict at the end of _run_single_error_stop_test_with_fpm
error_stop_test_with_fpm_verdict(test_subroutine, b) ==
    LET r == run_test_executable(b)
    IN IF r.returncode # 0
       THEN TestResult(test_subroutine, TRUE, <<"Correctly triggered error stop">>)
       ELSE TestResult(test_subroutine, FALSE,
                       <<"Expected error stop but test completed normally">>)

\* the verdict of check_error_stop_test once the file has an executable
check_error_stop_verdict(test_file, b) ==
    LET r == run_test_executable(b)
        name == test_file
    IN IF r.returncode # 0
       THEN IF r.returncode = 2 \/ "ERROR STOP" \in Range(r.output)
            THEN TestResult(name, TRUE, <<"Correctly triggered error stop">>)
            ELSE TestResult(name, FALSE,
                            <<"Unexpected error (exit code ",
                              CodeStr(r.returncode), "): ">> \o r.output)
       ELSE TestResult(name, FALSE,
                       <<"Expected error stop but test completed normally">>)

----------------------------------------------------------------------------
(* ProjectBuilder: direct compilation *)

\* Path.stem
stem(f) ==
    CASE f = "a.f90" -> "a"
      [] f = "b.f90" -> "b"
      [] f = "c.f90" -> "c"
      [] f = "lib/a.f90" -> "a"
      [] f = TestFile -> "test_sample"
      [] f = ErrorStopFile -> "test_error_stop_sample"
      [] OTHER -> "module_fortest_assertions"

\* output_dir / f"{module_file.stem}.o", or None; an OSError is not caught
compile_single_module(module_file, out) ==
    [raised |-> out = "oserror",
     output_obj |-> IF out = "ok" THEN <<"tmpdir", stem(module_file) \o ".o">> ELSE None]

\* the dependencies compiled one after the other, stopping at the first one
\* that fails; `invoked` lists the module files the compiler was started on
RECURSIVE compile_module_dependencies(_, _, _)
compile_module_dependencies(module_files, outs, compiled_objects) ==
    IF module_files = <<>>
    THEN [raised |-> FALSE, compiled_objects |-> compiled_objects, error |-> <<>>,
          invoked |-> <<>>]
    ELSE LET compile_result == compile_single_module(Head(module_files), Head(outs))
         IN IF compile_result.raised
            THEN [raised |-> TRUE, compiled_objects |-> <<>>, error |-> <<>>,
                  invoked |-> <<Head(module_files)>>]
            ELSE IF compile_result.output_obj = None
            THEN [raised |-> FALSE, compiled_objects |-> <<>>,
                  error |-> <<"Failed to compile dependency ", Head(module_files)>>,
                  invoked |-> <<Head(module_files)>>]
            ELSE LET rest == compile_module_dependencies(
                                 Tail(module_files), Tail(outs),
                                 Append(compiled_objects, compile_result.output_obj))
                 IN [rest EXCEPT !.invoked = <<Head(module_files)>> \o @]

\* error message, <<>> for None; an OSError is not caught
compile_test_executable(compiled_objects, out) ==
    [raised |-> out = "oserror",
     error |-> IF out = "failed" THEN <<"Compilation failed: ", Diagnostic>> ELSE <<>>]

\* the link step started without waiting for the dependencies to succeed
direct_build_link_anyway(module_files, dep_outs, link_out) ==
    LET deps == compile_module_dependencies(module_files, dep_outs, <<>>)
        link == compile_test_executable(deps.compiled_objects, link_out)
    IN [raised |-> deps.raised \/ link.raised,
        error |-> IF deps.error # <<>> THEN deps.error ELSE link.error,
        invoked |-> deps.invoked, link_started |-> TRUE,
        compiled_objects |-> deps.compiled_objects]

\* the two compile steps of _run_single_normal_test and
\* _run_single_error_stop_test: the dependencies, then the link
direct_build(module_files, dep_outs, link_out) ==
    LET deps == compile_module_dependencies(module_files, dep_outs, <<>>)
        link == compile_test_executable(deps.compiled_objects, link_out)
    IN IF deps.raised
       THEN [raised |-> TRUE, error |-> <<>>, invoked |-> deps.invoked,
             link_started |-> FALSE, compiled_objects |-> <<>>]
       ELSE IF deps.error # <<>>
       THEN [raised |-> FALSE, error |-> deps.error, invoked |-> deps.invoked,
             link_started |-> FALSE, compiled_objects |-> <<>>]
       ELSE [raised |-> link.raised, error |-> link.error, invoked |-> deps.invoked,
             link_started |-> TRUE, compiled_objects |-> deps.compiled_objects]

\* (success, output) of the single compiler call; an OSError is not caught
compile_test_with_fpm_modules(out) ==
    [raised |-> out = "oserror", success |-> out = "ok",
     output |-> IF out = "failed" THEN <<Diagnostic>> ELSE <<>>]

\* executable or None
compile_standalone_program(test_file, out) ==
    [raised |-> out = "oserror",
     executable |-> IF out = "ok" THEN <<"tmpdir", stem(test_file)>> ELSE None]

\* executable or None: every exception of the native build is caught
build_with_system(build, native, located) ==
    IF build # "none" /\ native = "ok" /\ located
    THEN <<"project", stem(TestFile)>>
    ELSE None

----------------------------------------------------------------------------
(* FortranTestRunner: the run *)

NoFile == [kind |-> "none", build |-> "none", native |-> "none",
           located |-> FALSE, mode |-> "none", subs |-> <<>>]

File(kind, build, native, located, mode, subs) ==
    [kind |-> kind, build |-> build, native |-> native, located |-> located,
     mode |-> mode, subs |-> subs]

ResetFile ==
    /\ cur' = NoFile
    /\ todo' = <<>>
    /\ results' = <<>>
    /\ origin' = <<>>
    /\ last_exec' = NoExec
    /\ attempted' = {}
    /\ linked' = {}
    /\ ran' = {}
    /\ aborted' = {}

\* an exception that leaves run_tests past a directory that stays behind
Raise_without_cleanup ==
    /\ pc' = "exited"
    /\ outcome' = "raised"
    /\ exit_status' = 1
    /\ tmpdir' = tmpdir
    /\ ResetFile
    /\ UNCHANGED <<nfiles, idx, total_tests, passed_tests, failed_tests>>

\* an exception leaves run_tests: the with block removes the directory and
\* main() returns ExitStatus.ERROR
Raise ==
    /\ pc' = "exited"
    /\ outcome' = "raised"
    /\ exit_status' = 1
    /\ tmpdir' = FALSE
    /\ ResetFile
    /\ UNCHANGED <<nfiles, idx, total_tests, passed_tests, failed_tests>>

\* a loop that gives up on the file at the first failing result
after_test_stop_on_failure(rest, result) ==
    IF result.passed THEN Tail(rest) ELSE <<>>

\* the subroutines still to run once one of them has its result: the for
\* loops go on whatever that result is
after_test(rest, result) == Tail(rest)

Exited(exec) == exec.kind # "none" /\ ~exec.timed_out

\* one subroutine of the file has its result
SubStep(sub, result, exec, did_attempt, did_link) ==
    /\ results' = Append(results, result)
    /\ origin' = Append(origin, sub)
    /\ todo' = after_test(todo, result)
    /\ pc' = IF todo' = <<>> THEN "count" ELSE "subs"
    /\ last_exec' = exec
    /\ attempted' = IF did_attempt THEN attempted \cup {sub} ELSE attempted
    /\ linked' = IF did_link THEN linked \cup {sub} ELSE linked
    /\ ran' = IF exec.kind # "none" THEN ran \cup {sub} ELSE ran
    /\ aborted' = IF Exited(exec) /\ exec.returncode # 0
                  THEN aborted \cup {sub} ELSE aborted
    /\ UNCHANGED <<nfiles, idx, cur, total_tests, passed_tests, failed_tests,
                   tmpdir, outcome, exit_status>>

\* main(): find_test_files, then run_tests up to its for loop
main ==
    /\ pc = "start"
    /\ \E n \in 0..MaxFiles :
         IF n = 0
         THEN /\ pc' = "exited"
              /\ outcome' = "no_files"
              /\ exit_status' = 1
              /\ UNCHANGED <<nfiles, idx, tmpdir>>
         ELSE /\ pc' = "file"
              /\ nfiles' = n
              /\ idx' = 1
              /\ tmpdir' = TRUE
              /\ UNCHANGED <<outcome, exit_status>>
    /\ UNCHANGED <<cur, todo, results, origin, last_exec, attempted, linked,
                   ran, aborted, total_tests, passed_tests, failed_tests>>
    /\ UNCHANGED <<resolver_vars, scan_vars, detect_vars>>

\* the file handler returned `res` without running per-subroutine drivers
FileDone(file, res, org, exec, rn, ab) ==
    /\ pc' = "count"
    /\ cur' = file
    /\ todo' = <<>>
    /\ results' = res
    /\ origin' = org
    /\ last_exec' = exec
    /\ attempted' = {}
    /\ linked' = {}
    /\ ran' = rn
    /\ aborted' = ab
    /\ UNCHANGED <<nfiles, idx, total_tests, passed_tests, failed_tests,
                   tmpdir, outcome, exit_status>>

\* the file handler goes on to run the subroutines one by one
FileSubs(file) ==
    /\ pc' = "subs"
    /\ cur' = file
    /\ todo' = separate_error_stop_tests(file.subs)[1] \o
               separate_error_stop_tests(file.subs)[2]
    /\ results' = <<>>
    /\ origin' = <<>>
    /\ last_exec' = NoExec
    /\ attempted' = {}
    /\ linked' = {}
    /\ ran' = {}
    /\ aborted' = {}
    /\ UNCHANGED <<nfiles, idx, total_tests, passed_tests, failed_tests,
                   tmpdir, outcome, exit_status>>

\* a test file whose name holds "error_stop": _handle_error_stop_test,
\* check_error_stop_test and, in it, ProjectBuilder.compile_test
handle_error_stop_test ==
    /\ pc = "file"
    /\ \E build \in Builds, native \in {"ok", "failed"}, located \in BOOLEAN,
          out \in CompilerOutcomes :
         LET executable_built == build_with_system(build, native, located)
             direct == compile_standalone_program(ErrorStopFile, out)
             file == File("error_stop_file", build,
                          IF build = "none" THEN "none" ELSE native,
                          build # "none" /\ native = "ok" /\ located,
                          IF executable_built # None THEN "delegated" ELSE "direct",
                          <<>>)
         IN IF executable_built = None /\ direct.raised
            THEN Raise
            ELSE IF executable_built = None /\ direct.executable = None
            THEN FileDone(file,
                          <<TestResult(ErrorStopFile, FALSE, <<"Compilation failed">>)>>,
                          <<ErrorStopFile>>, NoExec, {}, {})
            ELSE \E b \in Behaviours :
                   LET exec == Observed(ErrorStopFile, "error_stop", b)
                   IN FileDone(file, <<check_error_stop_verdict(ErrorStopFile, b)>>,
                               <<ErrorStopFile>>, exec, {ErrorStopFile},
                               IF Exited(exec) /\ exec.returncode # 0
                               THEN {ErrorStopFile} ELSE {})
    /\ UNCHANGED <<resolver_vars, scan_vars, detect_vars>>

\* what a file that reaches _handle_normal_test is: the handlers look for a
\* module declaration only (extract_module_name), never for a program
\* declaration, so a file holding only a program is a file without a module
file_kind(has_module, has_program) ==
    IF ~has_module /\ has_program THEN "program_file" ELSE "module"

\* _handle_normal_test when detect_build_system finds nothing
handle_normal_test ==
    /\ pc = "file"
    /\ \E has_module \in BOOLEAN, has_program \in BOOLEAN, subs \in SubLists :
         IF ~has_module \/ subs = <<>>
         THEN FileDone(File(file_kind(has_module, has_program),
                            "none", "none", FALSE, "direct",
                            IF has_module THEN subs ELSE <<>>),
                       <<>>, <<>>, NoExec, {}, {})
         ELSE FileSubs(File("module", "none", "none", FALSE, "direct", subs))
    /\ UNCHANGED <<resolver_vars, scan_vars, detect_vars>>

\* one "FPM build failed" result for the whole file
fpm_build_failed_results_once(all_test_subroutines) ==
    <<TestResult(all_test_subroutines[1], FALSE, <<"FPM build failed: ", Diagnostic>>)>>

\* "FPM build failed" for every subroutine of the file
fpm_build_failed_results(all_test_subroutines) ==
    [i \in 1..Len(all_test_subroutines) |->
        TestResult(all_test_subroutines[i], FALSE, <<"FPM build failed: ", Diagnostic>>)]

\* _handle_normal_test_with_fpm up to its per-subroutine loops
handle_normal_test_with_fpm ==
    /\ pc = "file"
    /\ \E has_module \in BOOLEAN, has_program \in BOOLEAN, subs \in SubLists,
          native \in CompilerOutcomes :
         IF ~has_module \/ subs = <<>>
         THEN FileDone(File(file_kind(has_module, has_program),
                            "fpm", "none", FALSE, "fpm",
                            IF has_module THEN subs ELSE <<>>),
                       <<>>, <<>>, NoExec, {}, {})
         ELSE IF native = "oserror" THEN Raise
         ELSE IF native = "failed"
         THEN FileDone(File("module", "fpm", "failed", FALSE, "fpm", subs),
                       fpm_build_failed_results(subs), subs, NoExec, {}, {})
         ELSE FileSubs(File("module", "fpm", "ok", FALSE, "fpm", subs))
    /\ UNCHANGED <<resolver_vars, scan_vars, detect_vars>>

\* the results of _handle_normal_test_with_build_system once the project's
\* own test executable has run (subprocess.run without a timeout)
build_system_results(all_test_subroutines, b) ==
    LET output == b.lines
        parsed == parse_test_output(output)
    IN IF b.code # 0
       THEN [i \in 1..Len(all_test_subroutines) |->
                TestResult(all_test_subroutines[i], FALSE,
                           <<"Test execution failed: ">> \o output)]
       ELSE IF parsed # <<>> THEN parsed
       ELSE [i \in 1..Len(all_test_subroutines) |->
                TestResult(all_test_subroutines[i], TRUE, <<>>)]

\* the subroutines each result of build_system_results was produced for
build_system_origin(all_test_subroutines, b) ==
    IF b.code = 0 /\ parse_test_output(b.lines) # <<>>
    THEN [i \in 1..Len(parse_test_output(b.lines)) |-> None]
    ELSE all_test_subroutines

\* the project's executable calls the subroutines in order in one process;
\* abort_at is the subroutine that ended the process, 0 if none did
DelegatedRan(subs, abort_at) ==
    IF abort_at = 0 THEN Range(subs) ELSE {subs[i] : i \in 1..abort_at}

\* _handle_normal_test_with_build_system: CMake or Make
handle_normal_test_with_build_system ==
    /\ pc = "file"
    /\ \E build \in {"cmake", "make"}, has_module \in BOOLEAN,
          has_program \in BOOLEAN, subs \in SubLists,
          native \in {"ok", "failed"}, located \in BOOLEAN :
         LET executable == build_with_system(build, native, located)
         IN IF ~has_module \/ subs = <<>>
            THEN FileDone(File(file_kind(has_module, has_program),
                               build, "none", FALSE, "delegated",
                               IF has_module THEN subs ELSE <<>>),
                          <<>>, <<>>, NoExec, {}, {})
            ELSE IF executable = None
            THEN FileSubs(File("module", build, native, native = "ok" /\ located,
                               "direct", subs))
            ELSE \E b \in ProjectBehaviours, abort_at \in 0..Len(subs) :
                   /\ abort_at > 0 => b.code # 0
                   /\ FileDone(File("module", build, native, TRUE, "delegated", subs),
                               build_system_results(subs, b),
                               build_system_origin(subs, b),
                               [sub |-> None, kind |-> "delegated", limited |-> FALSE,
                                elapsed |-> b.dur, timed_out |-> FALSE,
                                returncode |-> b.code, output |-> b.lines],
                               DelegatedRan(subs, abort_at),
                               IF abort_at = 0 THEN {} ELSE {subs[abort_at]})
    /\ UNCHANGED <<resolver_vars, scan_vars, detect_vars>>

\* _run_single_normal_test: direct compilation of one normal test
run_single_normal_test ==
    /\ pc = "subs" /\ cur.mode = "direct"
    /\ todo # <<>> /\ ~is_error_stop(Head(todo))
    /\ LET test_subroutine == Head(todo)
           module_files == find_module_files(TestFile, TRUE)
       IN \E dep_outs \in [1..Len(module_files) -> CompilerOutcomes],
             link_out \in CompilerOutcomes :
            LET build == direct_build(module_files, dep_outs, link_out)
            IN IF build.raised THEN Raise
               ELSE IF build.error # <<>>
               THEN SubStep(test_subroutine,
                            TestResult(test_subroutine, FALSE, build.error),
                            NoExec, TRUE, FALSE)
               ELSE \E b \in Behaviours :
                      SubStep(test_subroutine,
                              execute_and_parse_normal_test(test_subroutine, b),
                              Observed(test_subroutine, "normal", b), TRUE, TRUE)
    /\ UNCHANGED <<resolver_vars, scan_vars, detect_vars>>

\* _run_single_error_stop_test: direct compilation of one error_stop test
run_single_error_stop_test ==
    /\ pc = "subs" /\ cur.mode = "direct"
    /\ todo # <<>> /\ is_error_stop(Head(todo))
    /\ LET test_subroutine == Head(todo)
           module_files == find_module_files(TestFile, TRUE)
       IN \E dep_outs \in [1..Len(module_files) -> CompilerOutcomes],
             link_out \in CompilerOutcomes :
            LET build == direct_build(module_files, dep_outs, link_out)
            IN IF build.raised THEN Raise
               ELSE IF build.error # <<>>
               THEN SubStep(test_subroutine,
                            TestResult(test_subroutine, FALSE, build.error),
                            NoExec, TRUE, FALSE)
               ELSE \E b \in Behaviours :
                      SubStep(test_subroutine,
                              execute_and_check_error_stop(test_subroutine, b),
                              Observed(test_subroutine, "error_stop", b), TRUE, TRUE)
    /\ UNCHANGED <<resolver_vars, scan_vars, detect_vars>>

\* _run_single_normal_test_with_fpm
run_single_normal_test_with_fpm ==
    /\ pc = "subs" /\ cur.mode = "fpm"
    /\ todo # <<>> /\ ~is_error_stop(Head(todo))
    /\ LET test_subroutine == Head(todo)
       IN \E out \in CompilerOutcomes :
            LET compiled == compile_test_with_fpm_modules(out)
            IN IF compiled.raised THEN Raise
               ELSE IF ~compiled.success
               THEN SubStep(test_subroutine,
                            TestResult(test_subroutine, FALSE,
                                       <<"Compilation failed:">> \o compiled.output),
                            NoExec, TRUE, FALSE)
               ELSE \E b \in Behaviours :
                      SubStep(test_subroutine,
                              normal_test_with_fpm_verdict(test_subroutine, b),
                              Observed(test_subroutine, "normal", b), TRUE, TRUE)
    /\ UNCHANGED <<resolver_vars, scan_vars, detect_vars>>

\* _run_single_error_stop_test_with_fpm
run_single_error_stop_test_with_fpm ==
    /\ pc = "subs" /\ cur.mode = "fpm"
    /\ todo # <<>> /\ is_error_stop(Head(todo))
    /\ LET test_subroutine == Head(todo)
       IN \E out \in CompilerOutcomes :
            LET compiled == compile_test_with_fpm_modules(out)
            IN IF compiled.raised THEN Raise
               ELSE IF ~compiled.success
               THEN SubStep(test_subroutine,
                            TestResult(test_subroutine, FALSE,
                                       <<"Compilation failed:">> \o compiled.output),
                            NoExec, TRUE, FALSE)
               ELSE \E b \in Behaviours :
                      SubStep(test_subroutine,
                              error_stop_test_with_fpm_verdict(test_subroutine, b),
                              Observed(test_subroutine, "error_stop", b), TRUE, TRUE)
    /\ UNCHANGED <<resolver_vars, scan_vars, detect_vars>>

\* only the first result of the file is looked at
CountPassed_first_only(rs) == IF rs # <<>> /\ rs[1].passed THEN 1 ELSE 0

CountPassed(rs) == Cardinality({i \in 1..Len(rs) : rs[i].passed})

\* "Update statistics" at the end of the loop body of run_tests; after the
\* last file the with block ends and run_tests returns
update_statistics ==
    /\ pc = "count"
    /\ total_tests' = total_tests + Len(results)
    /\ passed_tests' = passed_tests + CountPassed(results)
    /\ failed_tests' = failed_tests + (Len(results) - CountPassed(results))
    /\ idx' = idx + 1
    /\ IF idx = nfiles
       THEN pc' = "summary" /\ tmpdir' = FALSE /\ outcome' = "completed"
       ELSE pc' = "file" /\ UNCHANGED <<tmpdir, outcome>>
    /\ ResetFile
    /\ UNCHANGED <<nfiles, exit_status>>
    /\ UNCHANGED <<resolver_vars, scan_vars, detect_vars>>

\* a summary that takes a run without results for a success
print_final_summary_empty_ok(total, passed, failed) ==
    IF failed = 0 THEN 0 ELSE 1

\* ExitStatus returned by print_final_summary
print_final_summary(total, passed, failed) ==
    IF failed = 0 /\ total > 0 THEN 0 ELSE 1

\* main() returns runner.print_summary()
print_summary ==
    /\ pc = "summary"
    /\ pc' = "exited"
    /\ exit_status' = print_final_summary(total_tests, passed_tests, failed_tests)
    /\ UNCHANGED <<nfiles, idx, cur, todo, results, origin, last_exec, attempted,
                   linked, ran, aborted, total_tests, passed_tests, failed_tests,
                   tmpdir, outcome>>
    /\ UNCHANGED <<resolver_vars, scan_vars, detect_vars>>

\* the user interrupts the run: the with block removes the directory and
\* main() returns ExitStatus.ERROR
KeyboardInterrupt ==
    /\ pc \in {"file", "subs", "count"}
    /\ pc' = "exited"
    /\ outcome' = "interrupted"
    /\ exit_status' = 1
    /\ tmpdir' = FALSE
    /\ ResetFile
    /\ UNCHANGED <<nfiles, idx, total_tests, passed_tests, failed_tests>>
    /\ UNCHANGED <<resolver_vars, scan_vars, detect_vars>>

----------------------------------------------------------------------------
(* The run of the tool *)

\* the module files form the chain a -> b -> c
ChainUses(test_uses) ==
    [f \in AllFiles |->
        CASE f = TestFile -> test_uses
          [] f = "a.f90" -> <<"b">>
          [] f = "b.f90" -> <<"c">>
          [] OTHER -> <<>>]

\* the use lines of the test files of a run
RunTestUses == {<<>>, <<ASSERTION_MODULE, "a">>}

NotResolved == <<"not resolved">>

NotScanned == [by |-> "nothing"]

NotDetected == [by |-> "nothing"]

\* no file is being scanned and no detection is under way
InitIdle ==
    /\ text = <<>>
    /\ scan = NotScanned
    /\ tree = <<>>
    /\ detected = NotDetected

InitRun ==
    /\ pc = "start"
    /\ nfiles = 0
    /\ idx = 0
    /\ cur = NoFile
    /\ todo = <<>>
    /\ results = <<>>
    /\ origin = <<>>
    /\ last_exec = NoExec
    /\ attempted = {}
    /\ linked = {}
    /\ ran = {}
    /\ aborted = {}
    /\ total_tests = 0
    /\ passed_tests = 0
    /\ failed_tests = 0
    /\ tmpdir = FALSE
    /\ outcome = "none"
    /\ exit_status = -1

Init ==
    /\ uses \in {ChainUses(u) : u \in RunTestUses}
    /\ assertion_at = "bundled"
    /\ modules = NotResolved
    /\ InitRun
    /\ InitIdle

Next ==
    \/ main
    \/ handle_error_stop_test
    \/ handle_normal_test
    \/ handle_normal_test_with_fpm
    \/ handle_normal_test_with_build_system
    \/ run_single_normal_test
    \/ run_single_error_stop_test
    \/ run_single_normal_test_with_fpm
    \/ run_single_error_stop_test_with_fpm
    \/ update_statistics
    \/ print_summary
    \/ KeyboardInterrupt

Spec == Init /\ [][Next]_vars

----------------------------------------------------------------------------
(* Dependency resolution alone, over every small project *)

InitResolve ==
    /\ uses \in {[f \in AllFiles |-> IF f = TestFile THEN t ELSE m[f]] :
                    t \in SeqsUpTo(TestUseNames, MaxUses),
                    m \in [Range(ModuleFiles) -> SeqsUpTo(ModuleNames, MaxModUses)]}
    /\ assertion_at \in {"project", "bundled", "missing"}
    /\ modules = NotResolved
    /\ InitRun
    /\ InitIdle

\* ModuleDependencyResolver.find_module_files(test_file, include_assertions)
resolve ==
    /\ modules = NotResolved
    /\ \E include_assertions \in BOOLEAN :
         modules' = find_module_files(TestFile, include_assertions)
    /\ UNCHANGED <<uses, assertion_at>>
    /\ UNCHANGED <<run_vars, scan_vars, detect_vars>>

NextResolve == resolve

SpecResolve == InitResolve /\ [][NextResolve]_vars

----------------------------------------------------------------------------
(* Properties *)

Last(s) == s[Len(s)]

Resolved == modules # NotResolved

\* a uses b, b uses c, c uses nothing, and the test file uses a
ChainABC ==
    /\ uses["a.f90"] = <<"b">>
    /\ uses["b.f90"] = <<"c">>
    /\ uses["c.f90"] = <<>>
    /\ "a" \in Range(uses[TestFile])

\* C1: for the chain a -> b -> c, resolving a file that uses a returns c, b
\* and a, every module after the modules it depends on
C1_TransitiveOrder ==
    (Resolved /\ ChainABC) =>
        /\ {"a.f90", "b.f90", "c.f90"} \subseteq Range(modules)
        /\ IndexOf(modules, "c.f90") < IndexOf(modules, "b.f90")
        /\ IndexOf(modules, "b.f90") < IndexOf(modules, "a.f90")

\* a and b use each other, and the test file uses a
CycleAB ==
    /\ uses["a.f90"] = <<"b">>
    /\ uses["b.f90"] = <<"a">>
    /\ "a" \in Range(uses[TestFile])

\* C2: for a and b using each other, resolving a file that uses a ends with
\* a exactly once and b exactly once in the result
C2_CycleEachOnce ==
    (Resolved /\ CycleAB) =>
        /\ Count(modules, "a.f90") = 1
        /\ Count(modules, "b.f90") = 1

\* C3: a Normal test whose process exited non-zero is never reported passed,
\* whatever markers its output holds
C3_NormalPassNeedsExitZero ==
    /\ (last_exec.kind = "normal" /\ ~last_exec.timed_out /\ Last(results).passed)
           => last_exec.returncode = 0
    /\ (last_exec.kind = "delegated" /\ \E i \in 1..Len(results) : results[i].passed)
           => last_exec.returncode = 0

\* C4: a test process that hit the timeout is reported as a failed result
\* with the timeout message, Normal and abort-expected alike
C4_TimeoutIsFailure ==
    last_exec.timed_out =>
        /\ ~Last(results).passed
        /\ TimedOutText \in Range(Last(results).message)

\* C5: an abort-expected test whose process ran to completion passed if and
\* only if its exit code is non-zero, whatever it printed
C5_AbortExpectedByExitCode ==
    (last_exec.kind = "error_stop" /\ ~last_exec.timed_out) =>
        (Last(results).passed <=> last_exec.returncode # 0)

\* the native build of the detected build system failed, or it gave no
\* executable
NativeBuildUnusable ==
    /\ cur.build # "none"
    /\ cur.native = "failed" \/ (cur.native = "ok" /\ ~cur.located)

\* C6: when the native build fails or the locator finds nothing, the file's
\* tests are compiled directly, for FPM, CMake and Make alike
C6_FallbackToDirect ==
    (pc = "count" /\ cur.kind = "module" /\ NativeBuildUnusable) =>
        attempted = Range(cur.subs)

\* subroutines that ran, or whose own driver did not build
RanOrOwnBuildFailed == ran \cup (attempted \ linked)

OwnBehaviour(exec) ==
    [lines |-> IF exec.timed_out THEN <<>> ELSE exec.output,
     code |-> IF exec.timed_out THEN 0 ELSE exec.returncode,
     dur |-> IF exec.timed_out THEN Timeout + 1 ELSE exec.elapsed]

\* the verdict that the subroutine's own process alone calls for
OwnVerdict(mode, exec) ==
    CASE mode = "direct" /\ exec.kind = "normal" ->
             execute_and_parse_normal_test(exec.sub, OwnBehaviour(exec))
      [] mode = "direct" /\ exec.kind = "error_stop" ->
             execute_and_check_error_stop(exec.sub, OwnBehaviour(exec))
      [] mode = "fpm" /\ exec.kind = "normal" ->
             normal_test_with_fpm_verdict(exec.sub, OwnBehaviour(exec))
      [] OTHER ->
             error_stop_test_with_fpm_verdict(exec.sub, OwnBehaviour(exec))

C8_EverythingAttempted ==
    /\ (pc = "count" /\ cur.kind = "module") =>
           Range(cur.subs) \subseteq (attempted \cup ran)
    /\ (pc = "exited" /\ outcome \notin {"interrupted", "no_files"}) =>
           idx = nfiles + 1

DelegatedParsed ==
    /\ last_exec.kind = "delegated"
    /\ last_exec.returncode = 0
    /\ parse_test_output(last_exec.output) # <<>>

C10_EveryExecutionLimited ==
    /\ last_exec.limited
    /\ last_exec.elapsed <= Timeout

\* C11: a compiler invocation that fails while the subroutines of a file are
\* being built, the compiler not starting included, does not raise out of
\* the run: the loop is left only with results or by user interruption
C11_CompilerFailureNeverRaises ==
    [][(pc = "subs" /\ pc' = "exited") => outcome' = "interrupted"]_vars

\* results of the file that stand for a build that exited non-zero
CompileFailedResults ==
    {i \in 1..Len(results) :
        \/ origin[i] \in attempted \ linked
        \/ /\ cur.kind = "error_stop_file"
           /\ last_exec.kind = "none"}

\* C12: the failing result of a test whose compilation exited non-zero
\* carries the compiler's diagnostic text in its message
C12_CompileFailureCarriesDiagnostic ==
    \A i \in CompileFailedResults :
        /\ ~results[i].passed
        /\ Diagnostic \in Range(results[i].message)

\* C13: the exit status is 0 if and only if the run completed, at least one
\* result was counted and none failed; it is 1 in every other case
C13_ExitStatus ==
    pc = "exited" =>
        exit_status = IF outcome = "completed" /\ total_tests > 0 /\ failed_tests = 0
                      THEN 0 ELSE 1

\* a completed run all of whose counted results passed
C13_Witness ==
    /\ pc = "exited"
    /\ outcome = "completed"
    /\ total_tests > 0
    /\ exit_status = 0

\* C14: once the run has finished, on whatever path, the scratch output
\* directory does not exist
C14_ScratchDirectoryRemoved ==
    pc \in {"summary", "exited"} => ~tmpdir

\* a run that created its directory and ended by an exception
C14_Witness ==
    /\ pc = "exited"
    /\ outcome = "raised"
    /\ nfiles > 0
    /\ ~tmpdir

\* C15: a test file that contains a program declaration is compiled and
\* linked by itself: once its handler has returned, the compiler has been
\* started on that file alone (no build system, no driver), which always
\* leaves exactly one TestResult for the file
C15_ProgramFileCompiledByItself ==
    (pc = "count" /\ cur.kind = "program_file") =>
        /\ cur.mode = "direct"
        /\ Len(results) = 1

----------------------------------------------------------------------------
(* Build-system detection alone, over every small directory chain *)

MaxDepth == 3

FPM_MARKER == "fpm.toml"
CMAKE_MARKER == "CMakeLists.txt"
MAKE_MARKER == "Makefile"

Markers == {FPM_MARKER, CMAKE_MARKER, MAKE_MARKER}

\* the directories from test_file.resolve().parent (index 1) up to the
\* filesystem root (the last index), each with the marker files it holds
DirectoryChains ==
    UNION {[1..n -> SUBSET Markers] : n \in 1..MaxDepth}

BuildSystemInfo(build_type, project_dir) ==
    [build_type |-> build_type, project_dir |-> project_dir]

\* detection returned None
NoBuildSystem == [build_type |-> "none", project_dir |-> 0]

\* BuildSystemDetector.detect from directory `current` on: the loop ends when
\* current == current.parent, that is at the root, before looking into it
RECURSIVE detect_from(_, _)
detect_from(chain, current) ==
    IF current = Len(chain) THEN NoBuildSystem
    ELSE IF FPM_MARKER \in chain[current] THEN BuildSystemInfo("fpm", current)
    ELSE IF CMAKE_MARKER \in chain[current] THEN BuildSystemInfo("cmake", current)
    ELSE IF MAKE_MARKER \in chain[current] THEN BuildSystemInfo("make", current)
    ELSE detect_from(chain, current + 1)

\* BuildSystemDetector.detect(test_file)
detect(chain) == detect_from(chain, 1)

\* detect_build_system of fortest/runner.py from directory `current` on
RECURSIVE runner_detect_from(_, _)
runner_detect_from(chain, current) ==
    IF current = Len(chain) THEN NoBuildSystem
    ELSE IF CMAKE_MARKER \in chain[current] THEN BuildSystemInfo("cmake", current)
    ELSE IF FPM_MARKER \in chain[current] THEN BuildSystemInfo("fpm", current)
    ELSE IF MAKE_MARKER \in chain[current] THEN BuildSystemInfo("make", current)
    ELSE runner_detect_from(chain, current + 1)

\* FortranTestRunner.detect_build_system(test_file) of fortest/runner.py
runner_detect_build_system(chain) == runner_detect_from(chain, 1)

InitDetect ==
    /\ uses \in {ChainUses(u) : u \in RunTestUses}
    /\ assertion_at = "bundled"
    /\ modules = NotResolved
    /\ InitRun
    /\ text = <<>>
    /\ scan = NotScanned
    /\ tree \in DirectoryChains
    /\ detected = NotDetected

\* a call of BuildSystemDetector.detect
detector_detect ==
    /\ detected = NotDetected
    /\ detected' = [by |-> "BuildSystemDetector", info |-> detect(tree)]
    /\ UNCHANGED <<tree, resolver_vars, run_vars, scan_vars>>

\* a call of detect_build_system of fortest/runner.py
runner_detect ==
    /\ detected = NotDetected
    /\ detected' = [by |-> "runner", info |-> runner_detect_build_system(tree)]
    /\ UNCHANGED <<tree, resolver_vars, run_vars, scan_vars>>

NextDetect ==
    \/ detector_detect
    \/ runner_detect

SpecDetect == InitDetect /\ [][NextDetect]_vars

HasDetected == detected # NotDetected

\* the marker the priority order FPM > CMake > Make picks among `markers`
Preferred(markers) ==
    IF FPM_MARKER \in markers THEN "fpm"
    ELSE IF CMAKE_MARKER \in markers THEN "cmake"
    ELSE "make"

\* C17: when markers of several build systems coexist in the directory that
\* detection reports, the build system reported is FPM over CMake over Make;
\* a directory holding an FPM and a CMake marker is reported as FPM
C17_FpmOverCmakeOverMake ==
    (HasDetected /\ detected.info # NoBuildSystem) =>
        detected.info.build_type = Preferred(tree[detected.info.project_dir])

\* the directories of the chain, root included, that hold a marker
WithMarker == {d \in 1..Len(tree) : tree[d] # {}}

\* C18: detection returns the nearest directory, from the test file's
\* directory up to the filesystem root, that holds any marker, and returns
\* nothing when no directory on that path holds one
C18_NearestMarkedDirectory ==
    (HasDetected /\ detected.by = "BuildSystemDetector") =>
        IF WithMarker = {} THEN detected.info = NoBuildSystem
        ELSE /\ detected.info # NoBuildSystem
             /\ detected.info.project_dir \in WithMarker
             /\ \A d \in WithMarker : detected.info.project_dir <= d

----------------------------------------------------------------------------
(* Scanning a test file for its test subroutines and generating its       *)
(* full-file runner, over every small source text                         *)

MaxSubLines == 3

\* a statement as written: its leading keyword(s) and the identifier after
Stmt(kw, name) == [kw |-> kw, name |-> name]

NoStmt == Stmt("", "")

\* a source line: the code before the first "!" and the text after it
Line(code, comment) == [code |-> code, comment |-> comment]

\* str.lower() on the identifiers of the texts
lower(name) ==
    CASE name = "TEST_A" -> "test_a"
      [] name = "A" -> "a"
      [] OTHER -> name

\* identifiers that match test_\w+ under re.IGNORECASE
TestPrefixed == {"test_a", "TEST_A", "test_b", "test_error_stop_div"}

SubroutineCode ==
    {Stmt("subroutine", n) :
        n \in {"test_a", "TEST_A", "test_error_stop_div", "dummy_subroutine"}}
    \cup {Stmt("end subroutine", n) : n \in {"test_a", ""}}
    \cup {Stmt("function", "test_dummy_func"), NoStmt}

SubroutineComments == {NoStmt, Stmt("subroutine", "test_b")}

SubroutineLines ==
    {Line(c, k) : c \in SubroutineCode, k \in SubroutineComments}

\* re.sub(r"!.*$", "", content, flags=re.MULTILINE)
strip_comments(content) ==
    [i \in 1..Len(content) |-> Line(content[i].code, NoStmt)]

\* the pattern without its ^ anchor: `end subroutine <name>` matches too
RECURSIVE subroutine_matches_unanchored(_)
subroutine_matches_unanchored(content) ==
    IF content = <<>> THEN <<>>
    ELSE (IF /\ Head(content).code.kw \in {"subroutine", "end subroutine"}
             /\ Head(content).code.name \in TestPrefixed
          THEN <<Head(content).code.name>> ELSE <<>>)
         \o subroutine_matches_unanchored(Tail(content))

\* re.findall(r"(?mi)^\s*subroutine\s+(test_\w+)\b", content): a line
\* matches where it starts with `subroutine` and a test-prefixed identifier
RECURSIVE subroutine_matches(_)
subroutine_matches(content) ==
    IF content = <<>> THEN <<>>
    ELSE (IF /\ Head(content).code.kw = "subroutine"
             /\ Head(content).code.name \in TestPrefixed
          THEN <<Head(content).code.name>> ELSE <<>>)
         \o subroutine_matches(Tail(content))

\* TestCodeGenerator.extract_test_subroutines
extract_test_subroutines(content) ==
    LET matches == subroutine_matches(strip_comments(content))
    IN unique_in_order([i \in 1..Len(matches) |-> lower(matches[i])], {})

PRINT_SUMMARY == "print_summary"

\* TestCodeGenerator.generate_test_program: the name of the program
\* (run_<stem of the test file>), the modules it uses and the subroutines it
\* calls, in order; the template around them is fixed, and output_dir only
\* says where the text is written
generate_test_program(test_file, test_module_name, test_subroutines, output_dir) ==
    [name |-> <<"run_", stem(test_file)>>,
     uses |-> <<ASSERTION_MODULE, test_module_name>>,
     calls |-> test_subroutines \o <<PRINT_SUMMARY>>]

\* TestCodeGenerator.generate_error_stop_test_program
generate_error_stop_test_program(test_module_name, test_subroutine, output_dir) ==
    [name |-> <<"run_", test_subroutine>>,
     uses |-> <<test_module_name>>,
     calls |-> <<test_subroutine>>]

\* a single-test program whose text names the directory it is written to
generate_single_test_program_in_dir(test_module_name, test_subroutine, output_dir) ==
    [name |-> <<"run_", test_subroutine, output_dir>>,
     uses |-> <<ASSERTION_MODULE, test_module_name>>,
     calls |-> <<test_subroutine>>]

\* TestCodeGenerator.generate_single_test_program
generate_single_test_program(test_module_name, test_subroutine, output_dir) ==
    [name |-> <<"run_", test_subroutine>>,
     uses |-> <<ASSERTION_MODULE, test_module_name>>,
     calls |-> <<test_subroutine>>]

NoProgram == [name |-> <<>>, uses |-> <<>>, calls |-> <<>>]

InitSubs ==
    /\ uses \in {ChainUses(u) : u \in RunTestUses}
    /\ assertion_at = "bundled"
    /\ modules = NotResolved
    /\ InitRun
    /\ text \in SeqsUpTo(SubroutineLines, MaxSubLines)
    /\ scan = NotScanned
    /\ tree = <<>>
    /\ detected = NotDetected

\* a call of TestCodeGenerator.extract_test_subroutines: open() and read()
\* stand outside any try, so a file that cannot be read or decoded raises
scan_test_subroutines ==
    /\ scan = NotScanned
    /\ \E readable \in BOOLEAN :
         scan' = [by |-> "extract_test_subroutines",
                  raised |-> ~readable,
                  subs |-> IF readable THEN extract_test_subroutines(text) ELSE <<>>,
                  program |-> NoProgram]
    /\ UNCHANGED <<text, resolver_vars, run_vars, detect_vars>>

\* ProjectBuilder._compile_module_test up to the generated main program
compile_module_test ==
    /\ scan = NotScanned
    /\ \E has_module \in BOOLEAN :
         LET test_subroutines == extract_test_subroutines(text)
         IN scan' = [by |-> "_compile_module_test",
                     subs |-> test_subroutines,
                     program |-> IF ~has_module \/ test_subroutines = <<>>
                                 THEN NoProgram
                                 ELSE generate_test_program(TestFile, TestModule,
                                                            test_subroutines,
                                                            "tmpdir")]
    /\ UNCHANGED <<text, resolver_vars, run_vars, detect_vars>>

NextSubs ==
    \/ scan_test_subroutines
    \/ compile_module_test

SpecSubs == InitSubs /\ [][NextSubs]_vars

\* C16: the full-file runner generated for a module test file calls exactly
\* the file's Normal test subroutines, each once and in extraction order,
\* and then the summary-printing entry point; it never calls an
\* abort-expected subroutine
C16_FullFileRunnerCallsNormalTests ==
    (scan.by = "_compile_module_test" /\ scan.program # NoProgram) =>
        scan.program.calls = SelectNormal(scan.subs) \o <<PRINT_SUMMARY>>

\* the lines that declare a test subroutine outside any comment
Declarations ==
    {i \in 1..Len(text) : /\ text[i].code.kw = "subroutine"
                          /\ text[i].code.name \in TestPrefixed}

\* the line of the first declaration of the subroutine named n
FirstDeclaration(n) ==
    CHOOSE i \in Declarations :
        /\ lower(text[i].code.name) = n
        /\ \A j \in Declarations : lower(text[j].code.name) = n => i <= j

\* C20: each subroutine whose declaration line starts with the test prefix
\* is extracted exactly once, in declaration order; an `end subroutine`
\* line and a commented-out declaration never produce an entry
C20_TestSubroutinesOnceInOrder ==
    (scan.by = "extract_test_subroutines" /\ ~scan.raised) =>
        /\ \A i \in Declarations : Count(scan.subs, lower(text[i].code.name)) = 1
        /\ Range(scan.subs) = {lower(text[i].code.name) : i \in Declarations}
        /\ \A j, k \in 1..Len(scan.subs) :
              j < k => FirstDeclaration(scan.subs[j]) < FirstDeclaration(scan.subs[k])

C20_Witness ==
    /\ scan.by = "extract_test_subroutines"
    /\ text = <<Line(Stmt("subroutine", "TEST_A"), Stmt("subroutine", "test_b")),
                Line(Stmt("end subroutine", "test_a"), NoStmt),
                Line(Stmt("subroutine", "test_error_stop_div"), NoStmt)>>
    /\ scan.subs = <<"test_a", "test_error_stop_div">>

----------------------------------------------------------------------------
(* Scanning a source file for the modules it uses, over every small text *)

MaxUseLines == 3

\* the ways a line can start that the use pattern accepts: `use <name>`,
\* `use :: <name>`, `use, intrinsic :: <name>`, and an identifier that
\* begins with the letters "use" (`use<name> = ...`), because `use\s*`
\* asks for no separator before the captured word
UseForms == {"use", "use ::", "use, intrinsic ::"}

USE_PREFIXED_IDENTIFIER == "use<name> ="

UseCode ==
    {Stmt(form, n) : form \in UseForms, n \in {"a", "A", "b"}}
    \cup {Stmt(USE_PREFIXED_IDENTIFIER, "b"), Stmt("call", "a"), NoStmt}

UseComments == {NoStmt, Stmt("use", "b")}

UseLines == {Line(c, k) : c \in UseCode, k \in UseComments}

\* re.findall(r"^\s*use\s*(?:,\s*intrinsic\s*)?(?:::\s*)?(\w+)", content,
\* re.IGNORECASE | re.MULTILINE)
RECURSIVE use_matches(_)
use_matches(content) ==
    IF content = <<>> THEN <<>>
    ELSE (IF Head(content).code.kw \in UseForms \cup {USE_PREFIXED_IDENTIFIER}
          THEN <<Head(content).code.name>> ELSE <<>>)
         \o use_matches(Tail(content))

\* ModuleDependencyResolver.extract_use_statements on a file's content;
\* a file that cannot be read or decoded gives []
extract_use_statements_of(readable, content) ==
    IF ~readable THEN <<>>
    ELSE LET matches == use_matches(strip_comments(content))
         IN unique_in_order([i \in 1..Len(matches) |-> lower(matches[i])], {})

InitUses ==
    /\ uses \in {ChainUses(u) : u \in RunTestUses}
    /\ assertion_at = "bundled"
    /\ modules = NotResolved
    /\ InitRun
    /\ text \in SeqsUpTo(UseLines, MaxUseLines)
    /\ scan = NotScanned
    /\ tree = <<>>
    /\ detected = NotDetected

\* a call of ModuleDependencyResolver.extract_use_statements
scan_use_statements ==
    /\ scan = NotScanned
    /\ \E readable \in BOOLEAN :
         scan' = [by |-> "extract_use_statements",
                  readable |-> readable,
                  names |-> extract_use_statements_of(readable, text)]
    /\ UNCHANGED <<text, resolver_vars, run_vars, detect_vars>>

NextUses == scan_use_statements

SpecUses == InitUses /\ [][NextUses]_vars

\* the lines that hold a use statement outside any comment
UseStatements == {i \in 1..Len(text) : text[i].code.kw \in UseForms}

\* the module names the file uses
UsedNames == {lower(text[i].code.name) : i \in UseStatements}

\* the names of the use statements that stand inside comments
CommentedNames ==
    {lower(text[i].comment.name) : i \in {j \in 1..Len(text) : text[j].comment.kw = "use"}}

\* the line of the first use statement that names n
FirstUse(n) ==
    CHOOSE i \in UseStatements :
        /\ lower(text[i].code.name) = n
        /\ \A j \in UseStatements : lower(text[j].code.name) = n => i <= j

\* C19: the extracted dependency names hold each used module name exactly
\* once (compared case-insensitively), in order of first occurrence, and
\* never a name that occurs only in a use statement inside a comment
C19_UsedNamesOnceInOrder ==
    (scan.by = "extract_use_statements" /\ scan.readable) =>
        /\ \A n \in UsedNames : Count(scan.names, n) = 1
        /\ \A m, n \in UsedNames :
              FirstUse(m) < FirstUse(n) => IndexOf(scan.names, m) < IndexOf(scan.names, n)
        /\ \A n \in CommentedNames \ UsedNames : n \notin Range(scan.names)

\* C21: scanning an unreadable or undecodable source file never raises:
\* the scan yields an empty or absent result
C21_UnreadableScanNeverRaises ==
    scan.by = "extract_test_subroutines" => ~scan.raised

----------------------------------------------------------------------------
(* Classifying a test file as a standalone program, over every small text *)

MaxProgramLines == 3

ProgramCode ==
    {Stmt("program", "test_prog"), Stmt("end program", "test_prog"),
     Stmt("module", "test_sample"), NoStmt}

ProgramComments == {NoStmt, Stmt("program", "old_main")}

ProgramLines == {Line(c, k) : c \in ProgramCode, k \in ProgramComments}

\* re.search(r"\bprogram\s+\w+", content, re.IGNORECASE) on the content as
\* read: the word program followed by an identifier, anywhere in a line
program_search(content) ==
    \E i \in 1..Len(content) :
        \/ content[i].code.kw \in {"program", "end program"}
        \/ content[i].comment.kw \in {"program", "end program"}

\* ProjectBuilder._is_standalone_program once the file has been read
is_standalone_program(error_stop_in_name, content) ==
    error_stop_in_name \/ program_search(content)

InitProgram ==
    /\ uses \in {ChainUses(u) : u \in RunTestUses}
    /\ assertion_at = "bundled"
    /\ modules = NotResolved
    /\ InitRun
    /\ text \in SeqsUpTo(ProgramLines, MaxProgramLines)
    /\ scan = NotScanned
    /\ tree = <<>>
    /\ detected = NotDetected

\* a call of ProjectBuilder._is_standalone_program: the file is read, with
\* no try around it, before the name is looked at
classify_standalone ==
    /\ scan = NotScanned
    /\ \E readable \in BOOLEAN, error_stop_in_name \in BOOLEAN :
         scan' = [by |-> "_is_standalone_program",
                  raised |-> ~readable,
                  error_stop_in_name |-> error_stop_in_name,
                  standalone |-> readable /\ is_standalone_program(error_stop_in_name, text)]
    /\ UNCHANGED <<text, resolver_vars, run_vars, detect_vars>>

NextProgram == classify_standalone

SpecProgram == InitProgram /\ [][NextProgram]_vars

\* a program declaration stands in the code of some line
DeclaresProgram == \E i \in 1..Len(text) : text[i].code.kw = "program"

\* a program declaration stands inside a comment
CommentDeclaresProgram == \E i \in 1..Len(text) : text[i].comment.kw = "program"

\* C26: a file in which a program declaration occurs only inside a comment,
\* and whose name does not carry the abort-expected marker, is classified
\* as module-like
C26_CommentedProgramIsModuleLike ==
    (/\ scan.by = "_is_standalone_program" /\ ~scan.raised
     /\ ~scan.error_stop_in_name
     /\ CommentDeclaresProgram /\ ~DeclaresProgram
     /\ \A i \in 1..Len(text) : text[i].code.kw # "end program")
        => ~scan.standalone

----------------------------------------------------------------------------
(* Generating driver programs, two calls in a row *)

MaxGeneratedSubs == 2

Templates == {"full_file", "error_stop", "single"}

GeneratorModules == {"test_sample", "test_other"}

GeneratorSubs == {"test_a", "test_b", "test_error_stop_div"}

\* two test files may declare a module of the same name
GeneratorFiles == {TestFile, ErrorStopFile}

OutputDirs == {"tmpdir", "tmpdir2"}

\* the arguments of one call of a generate_* method
GeneratorCalls ==
    {[template |-> "full_file", test_file |-> f, test_module_name |-> m,
      test_subroutines |-> subs, output_dir |-> d] :
        f \in GeneratorFiles, m \in GeneratorModules, d \in OutputDirs,
        subs \in SeqsUpTo(GeneratorSubs, MaxGeneratedSubs) \ {<<>>}}
    \cup
    {[template |-> t, test_file |-> None, test_module_name |-> m,
      test_subroutines |-> <<sub>>, output_dir |-> d] :
        t \in {"error_stop", "single"}, m \in GeneratorModules,
        sub \in GeneratorSubs, d \in OutputDirs}

\* the program text the call writes
Generated(call) ==
    CASE call.template = "full_file" ->
            generate_test_program(call.test_file, call.test_module_name,
                                  call.test_subroutines, call.output_dir)
      [] call.template = "error_stop" ->
            generate_error_stop_test_program(call.test_module_name,
                                             call.test_subroutines[1],
                                             call.output_dir)
      [] OTHER ->
            generate_single_test_program(call.test_module_name,
                                         call.test_subroutines[1],
                                         call.output_dir)

InitGenerate ==
    /\ uses \in {ChainUses(u) : u \in RunTestUses}
    /\ assertion_at = "bundled"
    /\ modules = NotResolved
    /\ InitRun
    /\ InitIdle

\* the first call of a generate_* method on a TestCodeGenerator
generate_first ==
    /\ scan = NotScanned
    /\ \E call \in GeneratorCalls :
         scan' = [by |-> "generate", calls |-> <<call>>,
                  programs |-> <<Generated(call)>>]
    /\ UNCHANGED <<text, resolver_vars, run_vars, detect_vars>>

\* a second call on the same TestCodeGenerator, with any arguments
generate_second ==
    /\ scan.by = "generate" /\ Len(scan.calls) = 1
    /\ \E call \in GeneratorCalls :
         scan' = [by |-> "generate", calls |-> Append(scan.calls, call),
                  programs |-> Append(scan.programs, Generated(call))]
    /\ UNCHANGED <<text, resolver_vars, run_vars, detect_vars>>

NextGenerate ==
    \/ generate_first
    \/ generate_second

SpecGenerate == InitGenerate /\ [][NextGenerate]_vars

TwoCalls == scan.by = "generate" /\ Len(scan.calls) = 2

\* the two calls used the same template, module name and subroutine names
SameNames ==
    /\ scan.calls[1].template = scan.calls[2].template
    /\ scan.calls[1].test_module_name = scan.calls[2].test_module_name
    /\ scan.calls[1].test_subroutines = scan.calls[2].test_subroutines

NoMarkers == parse_test_output(last_exec.output) = <<>>

\* C24: when the output of a Normal test that ran to its end holds no pass
\* or fail marker, the test passed if and only if the exit code is zero; a
\* non-zero exit is reported as a failure that names the exit code, and
\* where the project's own executable ran, every result follows the exit
\* code in the same way
C24_NoMarkersPassIffExitZero ==
    /\ (last_exec.kind = "normal" /\ ~last_exec.timed_out /\ NoMarkers) =>
          /\ Last(results).passed <=> last_exec.returncode = 0
          /\ last_exec.returncode # 0 =>
                CodeStr(last_exec.returncode) \in Range(Last(results).message)
    /\ (last_exec.kind = "delegated" /\ NoMarkers) =>
          \A i \in 1..Len(results) : results[i].passed <=> last_exec.returncode = 0

C24_Witness ==
    /\ last_exec.kind = "normal" /\ ~last_exec.timed_out /\ NoMarkers
    /\ cur.mode = "direct"
    /\ last_exec.output = <<"ERROR STOP">>
    /\ last_exec.returncode = 2
    /\ ~Last(results).passed

----------------------------------------------------------------------------
(* The verdict on one Normal test process, over every small output *)

MaxVerdictLines == 3

InitVerdict ==
    /\ uses \in {ChainUses(u) : u \in RunTestUses}
    /\ assertion_at = "bundled"
    /\ modules = NotResolved
    /\ InitRun
    /\ text \in SeqsUpTo(Lines, MaxVerdictLines)
    /\ scan = NotScanned
    /\ tree = <<>>
    /\ detected = NotDetected

\* _execute_and_parse_normal_test on the executable of a generated driver
\* whose process wrote the lines of `text`
verdict_direct ==
    /\ scan = NotScanned
    /\ \E b \in BehavioursUpTo(MaxVerdictLines) :
         /\ b.dur <= Timeout
         /\ b.lines = text
         /\ scan' = [by |-> "_execute_and_parse_normal_test",
                     returncode |-> b.code,
                     result |-> execute_and_parse_normal_test("test_a", b)]
    /\ UNCHANGED <<text, resolver_vars, run_vars, detect_vars>>

\* the verdict of _run_single_normal_test_with_fpm on the same process
verdict_fpm ==
    /\ scan = NotScanned
    /\ \E b \in BehavioursUpTo(MaxVerdictLines) :
         /\ b.dur <= Timeout
         /\ b.lines = text
         /\ scan' = [by |-> "_run_single_normal_test_with_fpm",
                     returncode |-> b.code,
                     result |-> normal_test_with_fpm_verdict("test_a", b)]
    /\ UNCHANGED <<text, resolver_vars, run_vars, detect_vars>>

NextVerdict ==
    \/ verdict_direct
    \/ verdict_fpm

SpecVerdict == InitVerdict /\ [][NextVerdict]_vars

\* C28: if the output of a Normal test holds at least one [FAIL] marker,
\* the test is reported as failed, wherever the marker stands among the
\* [PASS] markers
C28_AnyFailMarkerFails ==
    (scan # NotScanned /\ FAIL \in Range(text)) => ~scan.result.passed

----------------------------------------------------------------------------
(* Direct compilation of one Normal test subroutine, over every small     *)
(* list of dependency files                                                *)

MaxDeps == 2

\* module files a test file may depend on; a.f90 and lib/a.f90 are two
\* files of different directories that declare different modules
DependencyFiles == {"a.f90", "lib/a.f90", "b.f90"}

\* lists find_module_files can return: no file twice
DependencyLists ==
    {l \in SeqsUpTo(DependencyFiles, MaxDeps) :
        \A i, j \in 1..Len(l) : l[i] = l[j] => i = j}

\* FortranTestRunner._run_single_normal_test once module_files is known
single_normal_test(test_subroutine, module_files, dep_outs, link_out, b) ==
    LET build == direct_build(module_files, dep_outs, link_out)
    IN [build |-> build,
        ran |-> ~build.raised /\ build.error = <<>>,
        result |-> IF build.error # <<>>
                   THEN TestResult(test_subroutine, FALSE, build.error)
                   ELSE execute_and_parse_normal_test(test_subroutine, b)]

InitBuild ==
    /\ uses \in {ChainUses(u) : u \in RunTestUses}
    /\ assertion_at = "bundled"
    /\ modules = NotResolved
    /\ InitRun
    /\ InitIdle

\* a call of _run_single_normal_test
build_and_run_one ==
    /\ scan = NotScanned
    /\ \E module_files \in DependencyLists, link_out \in CompilerOutcomes,
          b \in Behaviours :
         \E dep_outs \in [1..Len(module_files) -> CompilerOutcomes] :
            LET done == single_normal_test("test_a", module_files, dep_outs,
                                           link_out, b)
            IN scan' = [by |-> "_run_single_normal_test",
                        module_files |-> module_files,
                        dep_outs |-> dep_outs,
                        build |-> done.build,
                        ran |-> done.ran,
                        result |-> done.result]
    /\ UNCHANGED <<text, resolver_vars, run_vars, detect_vars>>

NextBuild == build_and_run_one

SpecBuild == InitBuild /\ [][NextBuild]_vars

Built == scan.by = "_run_single_normal_test"

\* some dependency the compiler was started on exited non-zero
DependencyFailed ==
    \E i \in 1..Len(scan.build.invoked) : scan.dep_outs[i] = "failed"

\* C25: the dependency modules are compiled one at a time in resolved
\* order and the link starts only after all of them compiled; if one fails
\* to compile there is no link, no executable is run and the subroutine
\* gets a failing TestResult
C25_DependenciesThenLink ==
    Built =>
        /\ Len(scan.build.invoked) <= Len(scan.module_files)
        /\ \A i \in 1..Len(scan.build.invoked) :
              scan.build.invoked[i] = scan.module_files[i]
        /\ scan.build.link_started =>
              /\ scan.build.invoked = scan.module_files
              /\ \A i \in 1..Len(scan.module_files) : scan.dep_outs[i] = "ok"
        /\ DependencyFailed =>
              /\ ~scan.build.link_started
              /\ ~scan.ran
              /\ ~scan.result.passed

C25_Witness ==
    /\ Built
    /\ scan.module_files = <<"a.f90", "b.f90">>
    /\ scan.dep_outs = <<"ok", "failed">>
    /\ scan.build.invoked = <<"a.f90", "b.f90">>
    /\ ~scan.build.link_started
    /\ ~scan.result.passed

\* C30: distinct dependency module files get distinct object-file paths, so
\* the list of compiled objects handed to the linker holds no path twice
C30_DistinctObjectPaths ==
    (Built /\ scan.build.link_started) =>
        \A i, j \in 1..Len(scan.build.compiled_objects) :
            scan.build.compiled_objects[i] = scan.build.compiled_objects[j] => i = j

----------------------------------------------------------------------------
(* The counters of one runner over several run_tests calls; what a file   *)
(* handler does inside is left open                                        *)

MaxRuns == 2

MaxResults == 2

\* the results a file handler may return
ResultLists ==
    UNION {[1..n -> {TestResult("test_a", passed, <<>>) : passed \in BOOLEAN}] :
              n \in 0..MaxResults}

\* tally kept beside the runner: run_tests calls begun, TestResults the
\* handlers returned, and how many of those passed
Tally(runs, produced, produced_passed) ==
    [by |-> "run_tests", runs |-> runs, produced |-> produced,
     produced_passed |-> produced_passed]

InitCount ==
    /\ uses \in {ChainUses(u) : u \in RunTestUses}
    /\ assertion_at = "bundled"
    /\ modules = NotResolved
    /\ InitRun
    /\ text = <<>>
    /\ scan = Tally(1, 0, 0)
    /\ tree = <<>>
    /\ detected = NotDetected

\* run_tests called for the first time, by main()
first_run_tests ==
    /\ main
    /\ pc' = "file"

\* _handle_error_stop_test or _handle_normal_test returns a list of results,
\* or an exception leaves it
handle_test_file ==
    /\ pc = "file"
    /\ \E raises \in BOOLEAN, res \in ResultLists :
         IF raises
         THEN Raise /\ UNCHANGED scan
         ELSE /\ FileDone(File("module", "none", "none", FALSE, "direct", <<>>),
                          res, [i \in 1..Len(res) |-> None], NoExec, {}, {})
              /\ scan' = Tally(scan.runs, scan.produced + Len(res),
                               scan.produced_passed +
                                   Cardinality({i \in 1..Len(res) : res[i].passed}))
    /\ UNCHANGED <<text, resolver_vars, detect_vars>>

\* run_tests called again on the same runner: __init__ is not run again,
\* and run_tests itself does not touch the counters before its loop
run_tests_again ==
    /\ \/ pc = "summary"
       \/ pc = "exited" /\ outcome = "raised"
    /\ scan.runs < MaxRuns
    /\ \E n \in 1..MaxFiles :
         /\ pc' = "file"
         /\ nfiles' = n
         /\ idx' = 1
         /\ tmpdir' = TRUE
         /\ outcome' = "none"
    /\ scan' = Tally(scan.runs + 1, scan.produced, scan.produced_passed)
    /\ UNCHANGED <<cur, todo, results, origin, last_exec, attempted, linked, ran,
                   aborted, total_tests, passed_tests, failed_tests, exit_status>>
    /\ UNCHANGED <<text, resolver_vars, detect_vars>>

NextCount ==
    \/ first_run_tests
    \/ handle_test_file
    \/ update_statistics
    \/ run_tests_again

SpecCount == InitCount /\ [][NextCount]_vars

\* C29: after any sequence of run_tests calls on one runner, once the
\* results of a test file have been counted, total_tests is passed_tests
\* plus failed_tests and is the number of TestResults returned so far, each
\* counted once and on the side it belongs to
C29_CountersConsistent ==
    pc \in {"file", "summary"} =>
        /\ total_tests = passed_tests + failed_tests
        /\ total_tests = scan.produced
        /\ passed_tests = scan.produced_passed

C29_Witness ==
    /\ pc = "summary"
    /\ scan.runs = 2
    /\ total_tests = 3
    /\ passed_tests = 1
    /\ failed_tests = 2

----------------------------------------------------------------------------
(* The assertion helper among the dependencies of a generated driver *)

\* the normal test subroutines of the current file for which
\* _run_single_normal_test generated a driver and started the compiler
DirectNormalDrivers ==
    IF cur.mode = "direct"
    THEN {sub \in attempted : ~is_error_stop(sub)}
    ELSE {}

\* C27: whenever a generated driver program uses the assertion-helper
\* module, the assertion-helper file is among the dependency files compiled
\* and linked for that test, whether or not the test file references it
C27_HelperAmongDependencies ==
    \A sub \in DirectNormalDrivers :
        ASSERTION_MODULE \in
            Range(generate_single_test_program(TestModule, sub, "tmpdir").uses)
        => find_assertion_module \in Range(find_module_files(TestFile, TRUE))

====
